---- MODULE Spec2Model ----
(***************************************************************************)
(* Model of the two frame extractors of Gascii:                            *)
(*   scripts/extract_ansi_frames_optimized.py  (delta-encoded ANSI frames) *)
(*   scripts/extract_raw_rgb.py                (raw RGB frames, pooled)    *)
(***************************************************************************)
EXTENDS Integers, Sequences, FiniteSets, TLC

(***************************************************************************)
(* Python floats are IEEE-754 binary64.  A positive float is modelled as   *)
(* [m, e]: m is the 53-bit significand, most significant bit first and     *)
(* m[1] = 1, and the value is m * 2^e.  Only the operations the extractors *)
(* use are modelled: int / int division, int * float and int(float), all   *)
(* with round-to-nearest-even as the hardware does.                        *)
(***************************************************************************)
MantissaBits == 53

\* the w binary digits of n < 2^w, most significant first
FixedBits(n, w) == [k \in 1..w |-> (n \div (2 ^ (w - k))) % 2]

\* bits without its leading zeros (<<>> when no digit is 1)
StripZeros(bits) ==
    IF \A k \in 1..Len(bits) : bits[k] = 0 THEN <<>>
    ELSE LET first == CHOOSE k \in 1..Len(bits) :
                          bits[k] = 1 /\ \A j \in 1..(k - 1) : bits[j] = 0
         IN  SubSeq(bits, first, Len(bits))

\* binary digits of a natural number below 2^30 (<<>> for 0)
IntBits(n) == StripZeros(FixedBits(n, 30))

RECURSIVE BitsToInt(_)
\* the number a digit string of at most 30 digits denotes
BitsToInt(bits) ==
    IF Len(bits) = 0 THEN 0
    ELSE IF Len(bits) = 1 THEN bits[1]
    ELSE LET h == Len(bits) \div 2
         IN  BitsToInt(SubSeq(bits, 1, h)) * (2 ^ (Len(bits) - h))
               + BitsToInt(SubSeq(bits, h + 1, Len(bits)))

\* bits + 1; the result is one digit longer when every digit was 1
IncBits(bits) ==
    IF \A k \in 1..Len(bits) : bits[k] = 1
    THEN <<1>> \o [k \in 1..Len(bits) |-> 0]
    ELSE LET last == CHOOSE k \in 1..Len(bits) :
                         bits[k] = 0 /\ \A j \in (k + 1)..Len(bits) : bits[j] = 1
         IN  [k \in 1..Len(bits) |->
                 IF k < last THEN bits[k] ELSE IF k = last THEN 1 ELSE 0]

AnyOne(bits, from) == \E k \in from..Len(bits) : bits[k] = 1

\* The float nearest to bits * 2^e (plus a non-zero tail below the last
\* digit when sticky), ties to even.  bits starts with a 1.
RoundToFloat(bits, e, sticky) ==
    LET L == Len(bits) IN
    IF L <= MantissaBits
    THEN [m |-> bits \o [k \in 1..(MantissaBits - L) |-> 0],
          e |-> e - (MantissaBits - L)]
    ELSE LET kept  == SubSeq(bits, 1, MantissaBits)
             guard == bits[MantissaBits + 1]
             tail  == sticky \/ AnyOne(bits, MantissaBits + 2)
             up    == guard = 1 /\ (tail \/ kept[MantissaBits] = 1)
             inc   == IncBits(kept)
             e2    == e + (L - MantissaBits)
         IN  IF ~up THEN [m |-> kept, e |-> e2]
             ELSE IF Len(inc) = MantissaBits THEN [m |-> inc, e |-> e2]
             ELSE [m |-> SubSeq(inc, 1, MantissaBits), e |-> e2 + 1]

RECURSIVE DivDigits(_, _, _)
\* long division of r / o (r < o < 2^20), 10 binary places at a time, n times
DivDigits(r, o, n) ==
    IF n = 0 THEN [bits |-> <<>>, rem |-> r]
    ELSE LET q    == (r * 1024) \div o
             rest == DivDigits((r * 1024) % o, o, n - 1)
         IN  [bits |-> FixedBits(q, 10) \o rest.bits, rem |-> rest.rem]

\* t / o for integers 1 <= t, o < 2^20 with t / o >= 2^-20, as the float
\* Python computes: 80 binary places of the quotient, then rounded
FloatDiv(t, o) ==
    LET d == DivDigits(t % o, o, 8)
    IN  RoundToFloat(StripZeros(IntBits(t \div o) \o d.bits), 0 - 80, d.rem # 0)

\* the digits of m * i for a significand m and an integer 1 <= i < 2^16:
\* m is cut into four limbs of 14 digits and the carries run limb to limb
MulDigits(m, i) ==
    LET padded  == [k \in 1..(56 - Len(m)) |-> 0] \o m
        limb(j) == BitsToInt(SubSeq(padded, 14 * (j - 1) + 1, 14 * j))
        d4      == limb(4) * i
        d3      == limb(3) * i + (d4 \div 16384)
        d2      == limb(2) * i + (d3 \div 16384)
        d1      == limb(1) * i + (d2 \div 16384)
    IN  StripZeros(IntBits(d1 \div 16384) \o FixedBits(d1 % 16384, 14)
                     \o FixedBits(d2 % 16384, 14) \o FixedBits(d3 % 16384, 14)
                     \o FixedBits(d4 % 16384, 14))

\* i * f for an integer 1 <= i < 2^16 and a float f
FloatMulInt(i, f) == RoundToFloat(MulDigits(f.m, i), f.e, FALSE)

\* int(f): truncation towards zero, for f < 2^30
FloatToInt(f) ==
    IF 0 - f.e >= MantissaBits THEN 0
    ELSE BitsToInt(SubSeq(f.m, 1, MantissaBits + f.e))

(***************************************************************************)
(* Frame retiming, the same arithmetic in both extractors.                 *)
(***************************************************************************)
DefaultFps == 60

\* target_fps after "if target_fps <= 0: target_fps = 60"
EffectiveFps(t) == IF t <= 0 THEN DefaultFps ELSE t

\* multiplier = target_fps / orig_fps if orig_fps else 1.0
Multiplier(t, o) == IF o # 0 THEN FloatDiv(t, o) ELSE FloatDiv(1, 1)

\* int(i * multiplier); 0 * multiplier is 0.0
OutIdx(i, mult) == IF i = 0 THEN 0 ELSE FloatToInt(FloatMulInt(i, mult))

\* mutant: the window of the next frame
FramesToGenerateNext(i, mult) == OutIdx(i + 2, mult) - OutIdx(i + 1, mult)

\* frames_to_generate (ANSI) / count (raw) for input frame i
FramesToGenerate(i, mult) == OutIdx(i + 1, mult) - OutIdx(i, mult)

(***************************************************************************)
(* Pixel grids.  rgb[r][x] is the pixel of pixel row r in 0..2*height-1    *)
(* and column x in 0..width-1, an <<R, G, B>> triple.  Character cell      *)
(* (y, x) shows pixel rows 2y (top) and 2y+1 (bottom).                     *)
(***************************************************************************)
None == <<>>

Red   == <<255, 0, 0>>
Green == <<0, 255, 0>>
Blue  == <<0, 0, 255>>

\* the <<top, bottom>> pairs the modelled videos draw their cells from
CellColours == {<<Red, Green>>, <<Red, Blue>>, <<Blue, Green>>}
\* the pairs of the two-cell videos of the general runs
RowColours == {<<Red, Green>>, <<Red, Blue>>}

\* every frame of width w and height h whose cells are coloured from cols
Grids(w, h, cols) ==
    { [r \in 0..(2 * h - 1) |-> [x \in 0..(w - 1) |-> c[r \div 2][x][(r % 2) + 1]]] :
          c \in [0..(h - 1) -> [0..(w - 1) -> cols]] }

(***************************************************************************)
(* The ANSI escape tokens of a frame file; frame_data is their sequence.   *)
(***************************************************************************)
Tok(op, args) == [op |-> op, args |-> args]
MoveTok(y, x) == Tok("H", <<y, x>>)            \* ESC[{y};{x}H
BgTok(c)      == Tok("m", <<48, 2>> \o c)      \* ESC[48;2;{r};{g};{b}m
FgTok(c)      == Tok("m", <<38, 2>> \o c)      \* ESC[38;2;{r};{g};{b}m
Glyph         == Tok("glyph", <<>>)            \* the half block
RESET         == Tok("m", <<0>>)               \* ESC[0m

(***************************************************************************)
(* The delta encoder: the body of "if frames_to_generate > 0".             *)
(***************************************************************************)
\* mutant: the cursor is taken to be nowhere as the scan starts
InitialTrackerNoCursor ==
    [parts |-> <<>>, cur_fg |-> None, cur_bg |-> None, cursor_y |-> 0, cursor_x |-> 0]

\* ansi_parts, cur_fg, cur_bg and the cursor as each frame's scan starts
InitialTracker ==
    [parts |-> <<>>, cur_fg |-> None, cur_bg |-> None, cursor_y |-> 1, cursor_x |-> 1]

\* np.array_equal(row_current, row_prev) for character row y
RowUnchanged(cur, prev, y) ==
    /\ prev # None
    /\ cur[2 * y] = prev[2 * y]
    /\ cur[2 * y + 1] = prev[2 * y + 1]

\* mutant: only the top pixel is compared
ChangedTopOnly(cur, prev, y, x) ==
    \/ prev = None
    \/ cur[2 * y][x] # prev[2 * y][x]

\* mutant: every cell of a row that is not skipped counts as changed
ChangedAlways(cur, prev, y, x) == TRUE

\* "changed" for cell (y, x)
Changed(cur, prev, y, x) ==
    \/ prev = None
    \/ ~(cur[2 * y][x] = prev[2 * y][x] /\ cur[2 * y + 1][x] = prev[2 * y + 1][x])

\* mutant: only the column is compared
NeedMoveColumnOnly(st, target_y, target_x) == st.cursor_x # target_x

\* mutant: every changed cell gets its own move
NeedMoveAlways(st, target_y, target_x) == TRUE

\* the cursor is not at the target position
NeedMove(st, target_y, target_x) ==
    ~(st.cursor_y = target_y /\ st.cursor_x = target_x)

\* mutant: both colours are set for every changed cell
DrawCellBothColours(st, cur, y, x) ==
    LET move == IF NeedMove(st, y + 1, x + 1) THEN <<MoveTok(y + 1, x + 1)>> ELSE <<>>
    IN  [parts    |-> st.parts \o move
                          \o <<BgTok(cur[2 * y][x]), FgTok(cur[2 * y + 1][x]), Glyph>>,
         cur_fg   |-> cur[2 * y + 1][x],
         cur_bg   |-> cur[2 * y][x],
         cursor_y |-> y + 1,
         cursor_x |-> x + 2]

\* a changed cell: move, set the colours, draw the glyph, advance the cursor
DrawCell(st, cur, y, x) ==
    LET target_y == y + 1
        target_x == x + 1
        new_bg   == cur[2 * y][x]
        new_fg   == cur[2 * y + 1][x]
        move     == IF NeedMove(st, target_y, target_x)
                    THEN <<MoveTok(target_y, target_x)>> ELSE <<>>
        bg       == IF st.cur_bg # new_bg THEN <<BgTok(new_bg)>> ELSE <<>>
        fg       == IF st.cur_fg # new_fg THEN <<FgTok(new_fg)>> ELSE <<>>
    IN  [parts    |-> st.parts \o move \o bg \o fg \o <<Glyph>>,
         cur_fg   |-> new_fg,
         cur_bg   |-> new_bg,
         cursor_y |-> target_y,
         cursor_x |-> target_x + 1]

\* one iteration of the column loop (the row test repeated for each cell)
ScanCell(st, cur, prev, y, x) ==
    IF RowUnchanged(cur, prev, y) \/ ~Changed(cur, prev, y, x)
    THEN st
    ELSE DrawCell(st, cur, y, x)

RECURSIVE ScanFrom(_, _, _, _, _, _)
\* the row-major scan from cell number k on
ScanFrom(st, cur, prev, w, h, k) ==
    IF k >= w * h THEN st
    ELSE ScanFrom(ScanCell(st, cur, prev, k \div w, k % w), cur, prev, w, h, k + 1)

\* mutant: RESET is appended to every frame
FinishAlways(parts) == Append(parts, RESET)

\* mutant: RESET is never appended
FinishNever(parts) == parts

\* RESET is appended only if something was drawn
Finish(parts) == IF parts # <<>> THEN Append(parts, RESET) ELSE <<>>

\* the scan of frame cur against prev_rgb from tracker state st, and "End of
\* Frame": ansi_parts ends up as the tokens of frame_data
Scan(st, cur, prev, w, h) ==
    LET end == ScanFrom(st, cur, prev, w, h, 0)
    IN  [end EXCEPT !.parts = Finish(end.parts)]

\* mutant: the colours and the cursor are kept from the scan before
KeepTracker(left) == IF left = None THEN InitialTracker ELSE [left EXCEPT !.parts = <<>>]

\* the tracker is assigned anew before every scan, whatever it was left as
StartTracker(left) == InitialTracker

\* frame_data for frame cur against prev_rgb
Encode(cur, prev, w, h) == Scan(InitialTracker, cur, prev, w, h).parts

(***************************************************************************)
(* Bounds of the model.                                                    *)
(***************************************************************************)
MaxWidth        == 3    \* widest grid of the two-frame runs
MaxHeight       == 2    \* tallest grid of the two-frame runs
MaxCells        == 4    \* most cells of a grid of the two-frame runs
MaxFrames       == 4    \* longest video of the general runs
MaxRetimeFrames == 11   \* longest video of the retiming runs
MaxRawFrames    == 4    \* longest video of the raw extractor's runs
MaxWorkers      == 2    \* most worker processes of the pool
MaxFailures     == 1    \* most tasks that raise in one run

\* <<target_fps argument, orig_fps of the video>> of the general runs
RunRates == {<<30, 60>>, <<60, 30>>, <<60, 20>>, <<45, 30>>, <<0, 0>>}
\* the rates of the retiming runs
RetimeTargets == {0, 15, 30, 60}
RetimeOrigs   == {0, 11, 24, 30, 60}
\* the rates of the raw extractor's runs
RawRates == {<<30, 30>>, <<30, 60>>, <<60, 20>>}

VARIABLES
    width, height,   \* the grid is width x (2 * height) pixels
    target_fps,      \* the target_fps argument, defaulted by the setup
    orig_fps,        \* cap.get(CAP_PROP_FPS)
    multiplier,      \* target_fps / orig_fps, a float (None before the setup)
    cap,             \* the video: None if it cannot be opened, else the number
                     \* of frames left to read and the colours of its cells
    input_idx,       \* index of the input frame being processed
    frame_idx,       \* index of the next output slot
    prev_rgb,        \* the baseline: None or the grid of the last saved frame
    rgb,             \* the grid of the frame being saved
    frame_data,      \* the token sequence encoded for rgb
    repeats,         \* iterations left of the repeat loop
    tracker,         \* ansi_parts, cur_fg, cur_bg, cursor_y, cursor_x as last left
    files,           \* the output directory: slot -> [data, complete]
    pc,              \* where the extractor is
    \* the raw extractor's pool
    idx,             \* gen_tasks: index of the next output slot
    building,        \* tasks generated for the chunk being put together
    gen_done,        \* gen_tasks has returned
    inqueue,         \* chunks of tasks waiting for a worker
    workers,         \* worker -> [tasks: the rest of its chunk, opened, done]
    processed,       \* results the main loop has counted
    failures         \* tasks that raised so far

ansi_vars == <<frame_idx, prev_rgb, rgb, frame_data, repeats, tracker>>
raw_vars  == <<idx, building, gen_done, inqueue, workers, processed, failures>>

vars == <<width, height, target_fps, orig_fps, multiplier, cap, input_idx,
          frame_idx, prev_rgb, rgb, frame_data, repeats, tracker, files, pc,
          idx, building, gen_done, inqueue, workers, processed, failures>>

\* a directory with no file in it
NoFiles == <<>>

\* the file of slot s holding data; complete once the write has returned
WithFile(dir, s, data, complete) ==
    [t \in (DOMAIN dir) \cup {s} |->
        IF t = s THEN [data |-> data, complete |-> complete] ELSE dir[t]]

\* what a previous run may have left in the output directory
OldDirs == {NoFiles, WithFile(WithFile(NoFiles, 0, <<Glyph, RESET>>, TRUE), 7, <<>>, TRUE)}

Videos(n, cols) == [left : 0..n, colours : {cols}]

InitWith(dims, rates, videos) ==
    /\ \E d \in dims : width = d[1] /\ height = d[2]
    /\ \E r \in rates : target_fps = r[1] /\ orig_fps = r[2]
    /\ cap \in videos
    /\ files \in OldDirs
    /\ multiplier = None
    /\ input_idx = 0
    /\ frame_idx = 0
    /\ prev_rgb = None
    /\ rgb = None
    /\ frame_data = <<>>
    /\ repeats = 0
    /\ tracker = None
    /\ pc = "setup"
    /\ idx = 0
    /\ building = <<>>
    /\ gen_done = FALSE
    /\ inqueue = <<>>
    /\ workers = <<>>
    /\ processed = 0
    /\ failures = 0

\* the output directory is cleared, the video opened, the multiplier computed
Setup ==
    /\ pc = "setup"
    /\ files' = NoFiles
    /\ IF cap = None
       THEN /\ pc' = "aborted"      \* ValueError: cannot open video
            /\ UNCHANGED <<target_fps, multiplier>>
       ELSE /\ target_fps' = EffectiveFps(target_fps)
            /\ multiplier' = Multiplier(EffectiveFps(target_fps), orig_fps)
            /\ pc' = "read"
    /\ UNCHANGED <<width, height, orig_fps, cap, input_idx, frame_idx, prev_rgb,
                   rgb, frame_data, repeats, raw_vars, tracker>>

\* cap.read() at the end of the video: the loop ends
EndOfInput ==
    /\ pc = "read"
    /\ cap.left = 0
    /\ pc' = "done"
    /\ UNCHANGED <<width, height, target_fps, orig_fps, multiplier, cap, input_idx,
                   frame_idx, prev_rgb, rgb, frame_data, repeats, files, raw_vars, tracker>>

\* mutant: a dropped frame becomes the baseline
ReadFrameDropSetsBaseline ==
    /\ pc = "read"
    /\ cap.left > 0
    /\ \E frame \in Grids(width, height, cap.colours) :
         LET frames_to_generate == FramesToGenerate(input_idx, multiplier) IN
         /\ cap' = [cap EXCEPT !.left = @ - 1]
         /\ IF frames_to_generate > 0
            THEN /\ rgb' = frame
                 /\ tracker' = Scan(StartTracker(tracker), frame, prev_rgb, width, height)
                 /\ frame_data' = tracker'.parts
                 /\ repeats' = frames_to_generate - 1
                 /\ pc' = "open"
                 /\ UNCHANGED <<input_idx, prev_rgb>>
            ELSE /\ input_idx' = input_idx + 1
                 /\ prev_rgb' = frame
                 /\ UNCHANGED <<rgb, frame_data, repeats, tracker, pc>>
    /\ UNCHANGED <<width, height, target_fps, orig_fps, multiplier, frame_idx,
                   files, raw_vars>>

\* cap.read() returns a frame: it is dropped, or resized and encoded
ReadFrame ==
    /\ pc = "read"
    /\ cap.left > 0
    /\ \E frame \in Grids(width, height, cap.colours) :
         LET frames_to_generate == FramesToGenerate(input_idx, multiplier) IN
         /\ cap' = [cap EXCEPT !.left = @ - 1]
         /\ IF frames_to_generate > 0
            THEN /\ rgb' = frame
                 /\ tracker' = Scan(StartTracker(tracker), frame, prev_rgb, width, height)
                 /\ frame_data' = tracker'.parts
                 /\ repeats' = frames_to_generate - 1
                 /\ pc' = "open"
                 /\ UNCHANGED input_idx
            ELSE /\ input_idx' = input_idx + 1
                 /\ UNCHANGED <<rgb, frame_data, repeats, tracker, pc>>
    /\ UNCHANGED <<width, height, target_fps, orig_fps, multiplier, frame_idx,
                   prev_rgb, files, raw_vars>>

\* open(out_name, "w") creates or truncates the slot's file
OpenFile ==
    /\ pc \in {"open", "ropen"}
    /\ files' = WithFile(files, frame_idx, <<>>, FALSE)
    /\ pc' = IF pc = "open" THEN "write" ELSE "rwrite"
    /\ UNCHANGED <<width, height, target_fps, orig_fps, multiplier, cap, input_idx,
                   frame_idx, prev_rgb, rgb, frame_data, repeats, raw_vars, tracker>>

\* after a slot: the next repeat, or the next input frame
AfterSlot(left) ==
    IF left > 0
    THEN pc' = "ropen" /\ UNCHANGED input_idx
    ELSE pc' = "read" /\ input_idx' = input_idx + 1

\* mutant: the baseline is not replaced
SaveFirstKeepBaseline ==
    /\ pc = "write"
    /\ files' = WithFile(files, frame_idx, frame_data, TRUE)
    /\ frame_idx' = frame_idx + 1
    /\ AfterSlot(repeats)
    /\ UNCHANGED <<width, height, target_fps, orig_fps, multiplier, cap, prev_rgb,
                   rgb, frame_data, repeats, raw_vars, tracker>>

\* the first slot of the frame gets frame_data, and rgb becomes the baseline
SaveFirst ==
    /\ pc = "write"
    /\ files' = WithFile(files, frame_idx, frame_data, TRUE)
    /\ frame_idx' = frame_idx + 1
    /\ prev_rgb' = rgb
    /\ AfterSlot(repeats)
    /\ UNCHANGED <<width, height, target_fps, orig_fps, multiplier, cap, rgb,
                   frame_data, repeats, raw_vars, tracker>>

\* mutant: the repeat slot gets the frame's tokens again
RepeatDataSame(data) == data

\* what a repeat slot's file gets: f.write("")
RepeatData(data) == <<>>

\* mutant: a repeat slot forgets the baseline
SaveRepeatForgetsBaseline ==
    /\ pc = "rwrite"
    /\ files' = WithFile(files, frame_idx, RepeatData(frame_data), TRUE)
    /\ frame_idx' = frame_idx + 1
    /\ repeats' = repeats - 1
    /\ prev_rgb' = None
    /\ AfterSlot(repeats - 1)
    /\ UNCHANGED <<width, height, target_fps, orig_fps, multiplier, cap,
                   rgb, frame_data, raw_vars, tracker>>

\* a repeat slot gets the empty file
SaveRepeat ==
    /\ pc = "rwrite"
    /\ files' = WithFile(files, frame_idx, RepeatData(frame_data), TRUE)
    /\ frame_idx' = frame_idx + 1
    /\ repeats' = repeats - 1
    /\ AfterSlot(repeats - 1)
    /\ UNCHANGED <<width, height, target_fps, orig_fps, multiplier, cap, prev_rgb,
                   rgb, frame_data, raw_vars, tracker>>

\* open() or write() raises: nothing catches it and the run ends
SaveError ==
    /\ pc \in {"open", "write", "ropen", "rwrite"}
    /\ pc' = "aborted"
    /\ UNCHANGED <<width, height, target_fps, orig_fps, multiplier, cap, input_idx,
                   frame_idx, prev_rgb, rgb, frame_data, repeats, files, raw_vars, tracker>>

Next == Setup \/ EndOfInput \/ ReadFrame \/ OpenFile \/ SaveFirst \/ SaveRepeat \/ SaveError

\* the general runs of the ANSI extractor
Init ==
    \/ InitWith({<<1, 1>>}, RunRates, Videos(MaxFrames, CellColours) \cup {None})
    \/ InitWith({<<2, 1>>}, RunRates, Videos(MaxFrames, RowColours))
Spec == Init /\ [][Next]_vars

\* runs of two frames: every (baseline, current) pair of every grid size
EncodeDims ==
    {d \in (1..MaxWidth) \X (1..MaxHeight) : d[1] * d[2] <= MaxCells}
InitEncode ==
    InitWith(EncodeDims, {<<30, 30>>, <<60, 30>>},
             {[left |-> 2, colours |-> CellColours]})
NextEncode == Setup \/ EndOfInput \/ ReadFrame \/ OpenFile \/ SaveFirst \/ SaveRepeat
SpecEncode == InitEncode /\ [][NextEncode]_vars

\* runs over a still video: the retiming alone
InitRetime ==
    InitWith({<<1, 1>>}, RetimeTargets \X RetimeOrigs,
             Videos(MaxRetimeFrames, {<<Red, Green>>}))
NextRetime == Setup \/ EndOfInput \/ ReadFrame \/ OpenFile \/ SaveFirst \/ SaveRepeat
SpecRetime == InitRetime /\ [][NextRetime]_vars

(***************************************************************************)
(* The raw RGB extractor.  A frame is passed through to its file, so it is *)
(* modelled by the index of the input frame it is.  gen_tasks runs in the  *)
(* pool's task thread, which cuts the tasks into chunks of chunksize; a    *)
(* worker processes the tasks of a chunk one after the other.              *)
(***************************************************************************)
ChunkSize == 10

IdleWorker == [tasks |-> <<>>, opened |-> FALSE, done |-> 0]

\* header + data of a task's file
RawData(task) == [header |-> <<width, height>>, frame |-> task.frame]

\* the output directory is cleared, the video opened, the pool started
RawSetup ==
    /\ pc = "setup"
    /\ files' = NoFiles
    /\ IF cap = None
       THEN /\ pc' = "aborted"      \* ValueError: cannot open video
            /\ UNCHANGED <<target_fps, multiplier, workers>>
       ELSE /\ target_fps' = EffectiveFps(target_fps)
            /\ multiplier' = Multiplier(EffectiveFps(target_fps), orig_fps)
            /\ \E n \in 1..MaxWorkers : workers' = [w \in 1..n |-> IdleWorker]
            /\ pc' = "pool"
    /\ UNCHANGED <<width, height, orig_fps, cap, input_idx, ansi_vars, idx,
                   building, gen_done, inqueue, processed, failures>>

\* mutant: the tasks of a frame all get the frame's first slot
FrameTasksSameSlot(i, first, count) == [k \in 1..count |-> [idx |-> first, frame |-> i]]

\* the tasks of input frame i: count of them, for slots first, first + 1, ...
FrameTasks(i, first, count) == [k \in 1..count |-> [idx |-> first + k - 1, frame |-> i]]

\* the full chunks of a task sequence
FullChunks(tasks) ==
    [k \in 1..(Len(tasks) \div ChunkSize) |->
        SubSeq(tasks, ChunkSize * (k - 1) + 1, ChunkSize * k)]

\* the tasks after the full chunks
Remainder(tasks) ==
    SubSeq(tasks, ChunkSize * (Len(tasks) \div ChunkSize) + 1, Len(tasks))

\* gen_tasks reads a frame and yields its tasks; full chunks go to the workers
GenFrame ==
    /\ pc = "pool" /\ ~gen_done
    /\ cap.left > 0
    /\ LET count == FramesToGenerate(input_idx, multiplier)
           tasks == building \o FrameTasks(input_idx, idx, count)
       IN  /\ idx' = idx + count
           /\ inqueue' = inqueue \o FullChunks(tasks)
           /\ building' = Remainder(tasks)
    /\ cap' = [cap EXCEPT !.left = @ - 1]
    /\ input_idx' = input_idx + 1
    /\ UNCHANGED <<width, height, target_fps, orig_fps, multiplier, ansi_vars, files,
                   pc, gen_done, workers, processed, failures>>

\* cap.read() at the end of the video: gen_tasks returns, the last chunk goes
GenEnd ==
    /\ pc = "pool" /\ ~gen_done
    /\ cap.left = 0
    /\ gen_done' = TRUE
    /\ inqueue' = IF building = <<>> THEN inqueue ELSE Append(inqueue, building)
    /\ building' = <<>>
    /\ UNCHANGED <<width, height, target_fps, orig_fps, multiplier, cap, input_idx,
                   ansi_vars, files, pc, idx, workers, processed, failures>>

\* an idle worker takes the next chunk
TakeChunk(w) ==
    /\ pc = "pool"
    /\ workers[w].tasks = <<>>
    /\ inqueue # <<>>
    /\ workers' = [workers EXCEPT ![w] = [tasks |-> Head(inqueue), opened |-> FALSE, done |-> 0]]
    /\ inqueue' = Tail(inqueue)
    /\ UNCHANGED <<width, height, target_fps, orig_fps, multiplier, cap, input_idx,
                   ansi_vars, files, pc, idx, building, gen_done, processed, failures>>

\* the worker is through with the first task of its chunk; the results of a
\* chunk reach the main loop when its last task is through
TaskOver(w) ==
    LET rest == Tail(workers[w].tasks) IN
    /\ workers' = [workers EXCEPT ![w] =
                      [tasks |-> rest, opened |-> FALSE,
                       done |-> IF rest = <<>> THEN 0 ELSE workers[w].done + 1]]
    /\ processed' = IF rest = <<>> THEN processed + workers[w].done + 1 ELSE processed

\* _process_task: open(path, "wb") creates or truncates the slot's file
RawOpen(w) ==
    /\ pc = "pool"
    /\ workers[w].tasks # <<>> /\ ~workers[w].opened
    /\ files' = WithFile(files, Head(workers[w].tasks).idx, <<>>, FALSE)
    /\ workers' = [workers EXCEPT ![w].opened = TRUE]
    /\ UNCHANGED <<width, height, target_fps, orig_fps, multiplier, cap, input_idx,
                   ansi_vars, pc, idx, building, gen_done, inqueue, processed, failures>>

\* _process_task: fp.write(header + data), and the task returns
RawWrite(w) ==
    /\ pc = "pool"
    /\ workers[w].tasks # <<>> /\ workers[w].opened
    /\ files' = WithFile(files, Head(workers[w].tasks).idx,
                         RawData(Head(workers[w].tasks)), TRUE)
    /\ TaskOver(w)
    /\ UNCHANGED <<width, height, target_fps, orig_fps, multiplier, cap, input_idx,
                   ansi_vars, pc, idx, building, gen_done, inqueue, failures>>

\* _process_task: anything raised is caught and printed, and the task returns
RawError(w) ==
    /\ pc = "pool"
    /\ workers[w].tasks # <<>>
    /\ failures < MaxFailures
    /\ failures' = failures + 1
    /\ TaskOver(w)
    /\ UNCHANGED <<width, height, target_fps, orig_fps, multiplier, cap, input_idx,
                   ansi_vars, files, pc, idx, building, gen_done, inqueue>>

\* every result has come back: the pool is closed and the extractor is done
RawDone ==
    /\ pc = "pool"
    /\ gen_done /\ inqueue = <<>>
    /\ \A w \in DOMAIN workers : workers[w].tasks = <<>>
    /\ pc' = "done"
    /\ UNCHANGED <<width, height, target_fps, orig_fps, multiplier, cap, input_idx,
                   ansi_vars, files, raw_vars>>

NextRaw ==
    \/ RawSetup \/ GenFrame \/ GenEnd \/ RawDone
    \/ \E w \in DOMAIN workers : TakeChunk(w)
    \/ \E w \in DOMAIN workers : RawOpen(w)
    \/ \E w \in DOMAIN workers : RawWrite(w)
    \/ \E w \in DOMAIN workers : RawError(w)

InitRaw == InitWith({<<1, 1>>}, RawRates, Videos(MaxRawFrames, {<<Red, Green>>}) \cup {None})
SpecRaw == InitRaw /\ [][NextRaw]_vars

(***************************************************************************)
(* The terminal the frame files are played on: each file is written with   *)
(* the cursor at (1, 1); a glyph paints the cell under the cursor, its top *)
(* pixel in the background and its bottom pixel in the foreground colour,  *)
(* and moves the cursor one column right.                                  *)
(***************************************************************************)
BlankScreen(w, h) == [r \in 0..(2 * h - 1) |-> [x \in 0..(w - 1) |-> None]]

Paint(screen, y, x, bg, fg) ==
    [r \in DOMAIN screen |-> [c \in DOMAIN screen[r] |->
        IF c = x - 1 /\ r = 2 * (y - 1) THEN bg
        ELSE IF c = x - 1 /\ r = 2 * (y - 1) + 1 THEN fg
        ELSE screen[r][c]]]

TermStart(screen) == [screen |-> screen, y |-> 1, x |-> 1, bg |-> None, fg |-> None]

TermStep(t, tok) ==
    IF tok.op = "H" THEN [t EXCEPT !.y = tok.args[1], !.x = tok.args[2]]
    ELSE IF tok.op = "m" /\ tok.args[1] = 48 THEN [t EXCEPT !.bg = SubSeq(tok.args, 3, 5)]
    ELSE IF tok.op = "m" /\ tok.args[1] = 38 THEN [t EXCEPT !.fg = SubSeq(tok.args, 3, 5)]
    ELSE IF tok.op = "m" THEN [t EXCEPT !.bg = None, !.fg = None]
    ELSE [t EXCEPT !.screen = Paint(t.screen, t.y, t.x, t.bg, t.fg), !.x = t.x + 1]

RECURSIVE Play(_, _, _)
Play(t, data, k) == IF k > Len(data) THEN t ELSE Play(TermStep(t, data[k]), data, k + 1)

\* the screen after one file is played on it
Show(screen, data) == Play(TermStart(screen), data, 1).screen

RECURSIVE ShowFiles(_, _, _)
\* the screen after the files of slots 0..n-1 are played in order
ShowFiles(dir, n, blank) ==
    IF n = 0 THEN blank ELSE Show(ShowFiles(dir, n - 1, blank), dir[n - 1].data)

\* a frame has been encoded against prev_rgb and is about to be saved
Encoded == pc \in {"open", "write"}

\* C1: a frame equal to the baseline it is encoded against gives the empty
\* token sequence: no move, colour, glyph or reset token.
C1_SameGridEncodesEmpty == (Encoded /\ prev_rgb = rgb) => frame_data = <<>>

C1_Witness ==
    /\ Encoded /\ prev_rgb = rgb /\ frame_data = <<>>
    /\ width = 2 /\ height = 2
    /\ rgb[0][0] # rgb[0][1] /\ rgb[1][0] # rgb[3][0]

\* C2: played on a terminal that shows the baseline (any screen when there
\* is none), the tokens encoded for a frame leave the screen showing exactly
\* that frame; and once the files of slots 0..s are played in order the
\* screen shows the frame slot s was saved for.
C2_StreamTransformsBaseline ==
    /\ Encoded =>
         Show(IF prev_rgb = None THEN BlankScreen(width, height) ELSE prev_rgb,
              frame_data) = rgb
    /\ (pc \in {"read", "ropen", "done"} /\ frame_idx > 0) =>
         ShowFiles(files, frame_idx, BlankScreen(width, height)) = prev_rgb

C2_Witness ==
    /\ pc = "done" /\ frame_idx = 4 /\ width = 2 /\ height = 2
    /\ files[0].data # <<>> /\ files[2].data # <<>>
    /\ Len(files[2].data) < Len(files[0].data)
    /\ ShowFiles(files, 1, BlankScreen(width, height)) # prev_rgb
    /\ ShowFiles(files, 4, BlankScreen(width, height)) = prev_rgb

\* the one-row grid whose cells are the <<top, bottom>> pairs of cells
RowGrid(cells) == [r \in 0..1 |-> [x \in 0..(Len(cells) - 1) |-> cells[x + 1][r + 1]]]

GridA  == RowGrid(<<<<Red, Green>>>>)
GridB1 == RowGrid(<<<<Red, Green>>, <<Red, Green>>>>)
GridB2 == RowGrid(<<<<Red, Green>>, <<Red, Blue>>>>)

\* C4 (as amended): on a one-cell grid, a first frame with top (255,0,0) and
\* bottom (0,255,0) and no baseline is encoded as bg(255,0,0), fg(0,255,0),
\* glyph, reset, with no move token before them (the tracked cursor starts
\* at (1,1)); the same frame again is encoded as the empty sequence.
C4_ScenarioA ==
    (width = 1 /\ height = 1 /\ Encoded /\ rgb = GridA) =>
        /\ prev_rgb = None => frame_data = <<BgTok(Red), FgTok(Green), Glyph, RESET>>
        /\ prev_rgb = GridA => frame_data = <<>>

\* C4 as stated: the first frame's tokens start with move(1,1).
C4_ScenarioA_Stated ==
    (width = 1 /\ height = 1 /\ Encoded /\ rgb = GridA) =>
        /\ prev_rgb = None =>
             frame_data = <<MoveTok(1, 1), BgTok(Red), FgTok(Green), Glyph, RESET>>
        /\ prev_rgb = GridA => frame_data = <<>>

C4_Witness ==
    /\ width = 1 /\ height = 1 /\ pc = "open" /\ frame_idx = 1 /\ input_idx = 1
    /\ rgb = GridA /\ prev_rgb = GridA /\ frame_data = <<>>
    /\ files[0] = [data |-> <<BgTok(Red), FgTok(Green), Glyph, RESET>>, complete |-> TRUE]

\* C5 (as amended): on a grid of two cells in one row, when both cells were
\* top (255,0,0) / bottom (0,255,0) and only the right cell's bottom pixel
\* changes to (0,0,255), the frame is encoded as move(1,2), bg(255,0,0),
\* fg(0,0,255), glyph, reset: no move to column 1, and the background token
\* is there because the tracked colours start unset in every frame.
C5_ScenarioB ==
    (width = 2 /\ height = 1 /\ Encoded /\ prev_rgb = GridB1 /\ rgb = GridB2) =>
        frame_data = <<MoveTok(1, 2), BgTok(Red), FgTok(Blue), Glyph, RESET>>

\* C5 as stated: no background token.
C5_ScenarioB_Stated ==
    (width = 2 /\ height = 1 /\ Encoded /\ prev_rgb = GridB1 /\ rgb = GridB2) =>
        frame_data = <<MoveTok(1, 2), FgTok(Blue), Glyph, RESET>>

C5_Witness ==
    /\ width = 2 /\ height = 1 /\ pc = "write" /\ frame_idx = 1 /\ input_idx = 1
    /\ prev_rgb = GridB1 /\ rgb = GridB2
    /\ files[0].data = <<BgTok(Red), FgTok(Green), Glyph, Glyph, RESET>>
    /\ \A k \in 1..Len(frame_data) : frame_data[k] # MoveTok(1, 1)

\* the glyphs of a token sequence, in order: the cell each one paints and the
\* number of move tokens between it and the glyph before it
RECURSIVE DrawsFrom(_, _, _)
DrawsFrom(t, data, k) ==
    IF k > Len(data) THEN t.out
    ELSE LET tok == data[k] IN
         DrawsFrom(IF tok.op = "H"
                   THEN [t EXCEPT !.y = tok.args[1], !.x = tok.args[2], !.moves = @ + 1]
                   ELSE IF tok.op = "glyph"
                   THEN [t EXCEPT !.out = Append(@, [y |-> t.y, x |-> t.x, moves |-> t.moves]),
                                  !.x = @ + 1, !.moves = 0]
                   ELSE t,
                   data, k + 1)

Draws(data) == DrawsFrom([y |-> 1, x |-> 1, moves |-> 0, out |-> <<>>], data, 1)

\* cell (y, x) of the frame differs from the baseline's (0-based)
Differs(y, x) ==
    \/ prev_rgb = None
    \/ rgb[2 * y][x] # prev_rgb[2 * y][x]
    \/ rgb[2 * y + 1][x] # prev_rgb[2 * y + 1][x]

\* cell (y, x) is the first of a maximal run of changed cells of its row
StartsRun(y, x) == Differs(y, x) /\ (x = 0 \/ ~Differs(y, x - 1))

ChangedCells == {c \in (0..(height - 1)) \X (0..(width - 1)) : Differs(c[1], c[2])}

DrawnCells(d) == {<<d[k].y - 1, d[k].x - 1>> : k \in 1..Len(d)}

\* C8 (as amended): every maximal run of horizontally contiguous changed
\* cells of a row gets exactly one move token, before the tokens of its
\* first cell, and none before its other cells; except the run that begins
\* at row 1, column 1, which gets no move token (the tracked cursor starts
\* there).
C8_OneMovePerRun ==
    Encoded =>
        LET d == Draws(frame_data) IN
        /\ DrawnCells(d) = ChangedCells
        /\ \A k \in 1..Len(d) :
             d[k].moves = IF StartsRun(d[k].y - 1, d[k].x - 1)
                             /\ ~(d[k].y = 1 /\ d[k].x = 1)
                          THEN 1 ELSE 0

\* C8 as stated: the run that begins at row 1, column 1 gets a move too.
C8_OneMovePerRun_Stated ==
    Encoded =>
        LET d == Draws(frame_data) IN
        /\ DrawnCells(d) = ChangedCells
        /\ \A k \in 1..Len(d) :
             d[k].moves = IF StartsRun(d[k].y - 1, d[k].x - 1) THEN 1 ELSE 0

C8_Witness ==
    /\ Encoded /\ width = 3 /\ height = 1 /\ prev_rgb # None
    /\ Draws(frame_data) = <<[y |-> 1, x |-> 2, moves |-> 1], [y |-> 1, x |-> 3, moves |-> 0]>>

\* C9: whenever a repeat slot is written the baseline is the grid of the
\* frame whose first slot was just written, so the empty file written for
\* the repeat is what encoding that frame against the baseline gives.
C9_RepeatIsSound ==
    [][(pc = "rwrite" /\ pc' # "aborted") =>
          /\ prev_rgb = rgb
          /\ files'[frame_idx].data = Encode(rgb, prev_rgb, width, height)
          /\ files'[frame_idx].data = <<>>]_vars

C9_Witness ==
    /\ pc = "ropen" /\ repeats = 1 /\ orig_fps = 20 /\ frame_idx >= 5
    /\ prev_rgb = rgb
    /\ files[frame_idx - 1].data = <<>>
    /\ files[frame_idx - 2].data = frame_data /\ frame_data # <<>>

\* C7: an input frame with count k > 0 gets k consecutive slots, the first
\* holding the frame's tokens against the baseline and the other k-1 the
\* empty file; at 60 fps from 30 fps, 3 input frames give 6 slots of which
\* the 2nd, 4th and 6th are empty.
C7_SlotGrouping ==
    [][/\ (pc = "write" /\ pc' # "aborted") =>
            /\ files'[frame_idx].data = Encode(rgb, prev_rgb, width, height)
            /\ frame_idx = OutIdx(input_idx, multiplier)
            /\ repeats = OutIdx(input_idx + 1, multiplier) - frame_idx - 1
       /\ (pc = "rwrite" /\ pc' # "aborted") =>
            /\ files'[frame_idx].data = <<>>
            /\ frame_idx + repeats = OutIdx(input_idx + 1, multiplier)
       /\ (pc \in {"write", "rwrite"} /\ pc' = "read") =>
            frame_idx' = OutIdx(input_idx', multiplier)
       /\ (pc' = "done" /\ target_fps = 60 /\ orig_fps = 30 /\ input_idx = 3) =>
            /\ DOMAIN files = 0..5
            /\ files[0].data # <<>>
            /\ \A s \in {1, 3, 5} : files[s].data = <<>>]_vars

C7_Witness ==
    /\ pc = "done" /\ target_fps = 60 /\ orig_fps = 30 /\ input_idx = 3
    /\ frame_idx = 6 /\ files[2].data # <<>> /\ files[4].data # <<>>
    /\ files[5].data = <<>>

\* C3: once the whole input is consumed the number of slots is
\* floor(N * target_fps / orig_fps) for N input frames, and N when the two
\* rates are equal.
C3_SlotsConserved ==
    (pc = "done" /\ orig_fps # 0) =>
        /\ frame_idx = (input_idx * target_fps) \div orig_fps
        /\ target_fps = orig_fps => frame_idx = input_idx

\* the number of frames of the video
TotalFrames ==
    input_idx + cap.left + (IF pc \in {"open", "write", "ropen", "rwrite"} THEN 1 ELSE 0)

\* C6 (as amended): at 30 fps from 60 fps, 4 input frames give exactly 2
\* slots; the dropped frames are those at index 0 and 2, and the frames at
\* index 1 and 3 are the ones saved.
C6_ScenarioC ==
    [][(pc = "read" /\ target_fps = 30 /\ orig_fps = 60 /\ TotalFrames = 4) =>
          /\ pc' = "read" => input_idx \in {0, 2}
          /\ pc' = "open" => input_idx \in {1, 3}
          /\ pc' = "done" => (frame_idx = 2 /\ DOMAIN files = {0, 1})]_vars

\* C6 as stated: the dropped frames are those at index 1 and 3.
C6_ScenarioC_Stated ==
    [][(pc = "read" /\ target_fps = 30 /\ orig_fps = 60 /\ TotalFrames = 4) =>
          /\ pc' = "read" => input_idx \in {1, 3}
          /\ pc' = "done" => (frame_idx = 2 /\ DOMAIN files = {0, 1})]_vars

C6_Witness ==
    /\ pc = "done" /\ target_fps = 30 /\ orig_fps = 60 /\ input_idx = 4
    /\ frame_idx = 2 /\ DOMAIN files = {0, 1}

\* the slots whose file has been written completely
Written == {s \in DOMAIN files : files[s].complete}

\* C10: once the run has stopped the written slots have no gap: if slot j
\* was written, so was every slot below j.
C10_NoGapAfterStop ==
    pc \in {"done", "aborted"} => \A j \in Written : \A i \in 0..j : i \in Written

\* what the file being written is to hold
Payload == IF pc = "write" THEN frame_data ELSE RepeatData(frame_data)

\* C11: a slot's file never exists with a content other than the slot's
\* whole payload, not even between its creation and the end of its write.
C11_WritesAtomic ==
    (pc \in {"write", "rwrite"}) => files[frame_idx].data = Payload

RECURSIVE TrackerBefore(_)
\* the tracker as the scan of the frame reaches cell number k
TrackerBefore(k) ==
    IF k = 0 THEN InitialTracker
    ELSE ScanCell(TrackerBefore(k - 1), rgb, prev_rgb, (k - 1) \div width, (k - 1) % width)

\* the row-major number of the cell a glyph paints
CellNumber(draw) == (draw.y - 1) * width + (draw.x - 1)

\* C12: the glyphs of a frame's tokens paint exactly the cells that differ
\* from the baseline, each once and in row-major order; a cell that does not
\* differ adds no token and leaves the tracker as it was; with no baseline
\* there are width * height glyphs.
C12_DrawsAreChangedCells ==
    Encoded =>
        LET d == Draws(frame_data) IN
        /\ Len(d) = Cardinality(ChangedCells)
        /\ DrawnCells(d) = ChangedCells
        /\ \A k \in 1..(Len(d) - 1) : CellNumber(d[k]) < CellNumber(d[k + 1])
        /\ \A k \in 0..(width * height - 1) :
             ~Differs(k \div width, k % width) =>
                 TrackerBefore(k + 1) = TrackerBefore(k)
        /\ prev_rgb = None => Len(d) = width * height

C12_Witness ==
    /\ Encoded /\ width = 3 /\ height = 1 /\ prev_rgb # None
    /\ ChangedCells = {<<0, 0>>, <<0, 2>>}
    /\ Len(Draws(frame_data)) = 2
    /\ TrackerBefore(2) = TrackerBefore(1) /\ TrackerBefore(1).parts # <<>>

\* data is empty, or ends with RESET and has no other RESET
ResetAtEndOnly(data) ==
    \/ data = <<>>
    \/ /\ data[Len(data)] = RESET
       /\ \A k \in 1..(Len(data) - 1) : data[k] # RESET

\* C13: every file written is empty or ends with the one RESET it holds,
\* and a frame's tokens are non-empty exactly if a cell was drawn.
C13_ResetPlacement ==
    /\ pc # "setup" => \A s \in DOMAIN files : ResetAtEndOnly(files[s].data)
    /\ Encoded =>
         /\ ResetAtEndOnly(frame_data)
         /\ frame_data # <<>> <=> Draws(frame_data) # <<>>
         /\ frame_data # <<>> <=> ChangedCells # {}

C13_Witness ==
    /\ pc = "done" /\ frame_idx = 4
    /\ files[0].data # <<>> /\ files[0].data[Len(files[0].data)] = RESET
    /\ files[1].data = <<>>
    /\ Len(files[2].data) > 4 /\ files[2].data[Len(files[2].data)] = RESET

\* C14: whatever the frames before, a frame's scan starts with the cursor at
\* (1,1) and no colour set, so its tokens depend on the frame and the
\* baseline alone.
C14_NoStateAcrossFrames ==
    /\ StartTracker(tracker) = InitialTracker
    /\ Encoded => frame_data = Encode(rgb, prev_rgb, width, height)

C14_Witness ==
    /\ Encoded /\ frame_idx > 0 /\ prev_rgb # None /\ width = 2
    /\ files[0].data # <<>> /\ frame_data # <<>>
    /\ frame_data[1].op = "m"
    /\ frame_data = Encode(rgb, prev_rgb, width, height)

RECURSIVE ColoursFrom(_, _, _)
\* the glyphs of a token sequence, in order: the cell each one paints, the
\* colours in force at the glyph before it (None at the first) and the
\* colours set by the tokens between the two
ColoursFrom(t, data, k) ==
    IF k > Len(data) THEN t.out
    ELSE LET tok == data[k] IN
         ColoursFrom(IF tok.op = "H"
                     THEN [t EXCEPT !.y = tok.args[1], !.x = tok.args[2]]
                     ELSE IF tok.op = "m" /\ tok.args[1] = 48
                     THEN [t EXCEPT !.bgs = Append(@, SubSeq(tok.args, 3, 5))]
                     ELSE IF tok.op = "m" /\ tok.args[1] = 38
                     THEN [t EXCEPT !.fgs = Append(@, SubSeq(tok.args, 3, 5))]
                     ELSE IF tok.op = "glyph"
                     THEN [t EXCEPT !.out = Append(@, [y |-> t.y, x |-> t.x,
                                                      bg |-> t.bg, fg |-> t.fg,
                                                      bgs |-> t.bgs, fgs |-> t.fgs]),
                                    !.x = @ + 1,
                                    !.bg = IF t.bgs = <<>> THEN t.bg ELSE t.bgs[Len(t.bgs)],
                                    !.fg = IF t.fgs = <<>> THEN t.fg ELSE t.fgs[Len(t.fgs)],
                                    !.bgs = <<>>, !.fgs = <<>>]
                     ELSE t,
                     data, k + 1)

Colours(data) ==
    ColoursFrom([y |-> 1, x |-> 1, bg |-> None, fg |-> None, bgs |-> <<>>,
                 fgs |-> <<>>, out |-> <<>>], data, 1)

\* the tokens of data whose first two arguments are kind, 2
ColourToks(data, kind) ==
    SelectSeq(data, LAMBDA tok : tok.op = "m" /\ tok.args[1] = kind)

\* C15: before a glyph the background is set exactly if the cell's top pixel
\* is not the background in force (none is in force at the first glyph), and
\* the foreground likewise for the bottom pixel; so no two successive
\* background (foreground) tokens of a frame have the same colour, and the
\* first glyph of a frame has both tokens before it.
C15_ColoursOnlyOnChange ==
    Encoded =>
        LET c  == Colours(frame_data)
            bt == ColourToks(frame_data, 48)
            ft == ColourToks(frame_data, 38)
        IN  /\ \A k \in 1..Len(c) :
                 LET top    == rgb[2 * (c[k].y - 1)][c[k].x - 1]
                     bottom == rgb[2 * (c[k].y - 1) + 1][c[k].x - 1]
                 IN  /\ c[k].bgs = IF top # c[k].bg THEN <<top>> ELSE <<>>
                     /\ c[k].fgs = IF bottom # c[k].fg THEN <<bottom>> ELSE <<>>
            /\ \A k \in 1..(Len(bt) - 1) : bt[k] # bt[k + 1]
            /\ \A k \in 1..(Len(ft) - 1) : ft[k] # ft[k + 1]
            /\ Len(c) > 0 => (c[1].bgs # <<>> /\ c[1].fgs # <<>>)

C15_Witness ==
    /\ Encoded /\ width = 3 /\ height = 1
    /\ frame_data = <<BgTok(Red), FgTok(Green), Glyph, FgTok(Blue), Glyph,
                      BgTok(Blue), FgTok(Green), Glyph, RESET>>

\* C16: whenever the next input frame is about to be read, the baseline is
\* None exactly if no slot has been written, and else is the grid of the
\* last input frame that got a slot; it is replaced by the writing of a
\* frame's first slot, once, and by nothing else.
C16_BaselineInvariant ==
    [][/\ pc' = "read" =>
            /\ prev_rgb' = None <=> frame_idx' = 0
            /\ frame_idx' > 0 => prev_rgb' = rgb'
       /\ (pc = "write" /\ pc' # "aborted") => prev_rgb' = rgb
       /\ pc # "write" => prev_rgb' = prev_rgb]_vars

C16_Witness ==
    /\ pc = "read" /\ target_fps = 30 /\ orig_fps = 60
    /\ input_idx = 3 /\ frame_idx = 1
    /\ prev_rgb = rgb /\ prev_rgb # None

\* C17: an input frame with count 0 changes nothing but the input index
\* (and the position in the video): not the baseline, the slot counter or
\* the files; so the next frame that gets a slot is encoded against the last
\* frame that got one.
C17_DroppedFrameNoEffect ==
    [][/\ (pc = "read" /\ cap.left > 0 /\ FramesToGenerate(input_idx, multiplier) = 0) =>
            /\ input_idx' = input_idx + 1
            /\ pc' = "read"
            /\ UNCHANGED <<prev_rgb, frame_idx, files, rgb, frame_data, tracker>>
       /\ (pc = "read" /\ pc' = "open") =>
            /\ frame_idx > 0 => prev_rgb = rgb
            /\ frame_data' = Encode(rgb', prev_rgb, width, height)]_vars

\* a frame was saved, the next dropped, and the one after it is encoded
C17_Witness ==
    /\ pc = "open" /\ target_fps = 30 /\ orig_fps = 60 /\ input_idx = 3
    /\ frame_idx = 1 /\ width = 2
    /\ prev_rgb # None /\ prev_rgb # rgb
    /\ frame_data = Encode(rgb, prev_rgb, width, height)
    /\ frame_data # Encode(rgb, None, width, height)

\* C18: slots are written in order, each index once; and when the run is
\* done at the end of an input of N frames, the files are exactly those of
\* slots 0 .. floor(N * target_fps / orig_fps) - 1, all written by this run.
C18_SequentialRun ==
    [][/\ pc' # "setup" =>
            /\ Written' \in {0..(frame_idx' - 1), 0..frame_idx'}
            /\ DOMAIN files' \subseteq 0..frame_idx'
       /\ pc # "setup" =>
            \A s \in DOMAIN files : files'[s] # files[s] => s = frame_idx
       /\ (pc' = "done" /\ orig_fps # 0) =>
            /\ Written' = 0..(((input_idx * target_fps) \div orig_fps) - 1)
            /\ DOMAIN files' = Written']_vars

\* the tasks generated and not yet through, as <<place, number, task>>
PendingTasks ==
    {<<0, k, building[k]>> : k \in DOMAIN building}
    \cup UNION {{<<0 - c, k, inqueue[c][k]>> : k \in DOMAIN inqueue[c]} : c \in DOMAIN inqueue}
    \cup UNION {{<<w, k, workers[w].tasks[k]>> : k \in DOMAIN workers[w].tasks} :
                   w \in DOMAIN workers}

\* the input frame whose slots slot s is one of
FrameOfSlot(s) ==
    CHOOSE i \in 0..(input_idx - 1) :
        OutIdx(i, multiplier) <= s /\ s < OutIdx(i + 1, multiplier)

\* C19: the tasks generated have the slot indices 0, 1, 2, ... with no index
\* twice, so no two tasks write the same file; and whatever the order the
\* workers took and finished them in, a run in which no task raised ends
\* with every slot's file holding the frame of the input frame the slot was
\* generated for.
C19_CompletionOrderIrrelevant ==
    /\ \A t, u \in PendingTasks : t[3].idx = u[3].idx => t = u
    /\ \A t \in PendingTasks : t[3].idx < idx /\ (failures = 0 => t[3].idx \notin Written)
    /\ (pc = "pool" /\ failures = 0) =>
          Written \cup {t[3].idx : t \in PendingTasks} = 0..(idx - 1)
    /\ (pc = "done" /\ failures = 0) =>
          /\ DOMAIN files = 0..(idx - 1)
          /\ \A s \in DOMAIN files :
               files[s] = [data |-> [header |-> <<width, height>>,
                                     frame |-> FrameOfSlot(s)],
                           complete |-> TRUE]

C19_Witness ==
    /\ pc = "done" /\ failures = 0
    /\ Cardinality(DOMAIN workers) = 2
    /\ idx = 12 /\ processed = 12 /\ input_idx = 4
    /\ files[2].data.frame = 0 /\ files[3].data.frame = 1 /\ files[11].data.frame = 3
====
